---------------------------- MODULE Spec2Model ----------------------------
(***************************************************************************)
(* Anchor resolution and overlay compositing of worksheet_filler.          *)
(*                                                                         *)
(* The repository holds two implementations of the same pipeline:          *)
(*   src/app.py               find_prompt_anchor, overlay_answers_on_pdf   *)
(*   src/worksheet_filler.py  find_question_anchor, overlay_answers_on_pdf *)
(* Both are modelled.  The variant "app" is src/app.py, the variant "cli"  *)
(* is src/worksheet_filler.py.                                             *)
(*                                                                         *)
(* Texts.  A token (a page word, or one whitespace-separated piece of a    *)
(* prompt) is a sequence of characters.  A prompt is the sequence of its   *)
(* tokens, that is str.split() of the prompt string.  An answer string is  *)
(* the sequence of its "\n"-separated chunks, each chunk the sequence of   *)
(* the lengths of its words: what textwrap.wrap needs to know.             *)
(***************************************************************************)
EXTENDS Integers, Sequences, FiniteSets, TLC

VARIABLES
    \* ---- resolver harness (SpecResolve) ----
    r_pc,        \* "start" | "app" | "cli": which resolver has run
    r_page,      \* the page handed to the resolver
    r_prompt,    \* the prompt handed to the resolver
    r_anchor,    \* what the resolver returned
    \* ---- overlay_answers_on_pdf (Spec) ----
    variant,         \* "app" | "cli"
    pages,           \* the input document: reader.pages / pl_doc.pages
    items_by_page,   \* the answers, one list of items per page index
    pc,              \* position in overlay_answers_on_pdf
    i,               \* page loop index (0-based, as in the code)
    j,               \* index of the current item of page i (1-based)
    fallback_y,      \* worksheet_filler.py's fallback cursor
    x, y,            \* drawing position of the current item
    lines,           \* wrapped lines of the current item still to draw
    can,             \* the canvas of page i: the drawString calls so far
    writer,          \* PdfWriter: the pages added so far
    output,          \* the file written: <<>> until writer.write, then <<writer>>
    trace            \* history (not program state): what was done on which page

rvars == <<r_pc, r_page, r_prompt, r_anchor>>
ovars == <<variant, pages, items_by_page, pc, i, j, fallback_y, x, y,
           lines, can, writer, output, trace>>
vars == <<rvars, ovars>>

----------------------------------------------------------------------------
(* Bounds of the model *)

MaxWords == 6        \* words on a page handed to the resolver
MaxAnswerWords == 6  \* words of the long answer
MaxPages == 2        \* pages of a document
MaxItems == 3        \* items in one page's answer list

(* Program constants *)

SnippetMaxApp == 6   \* app.py: min(len(p_words), 6)
SnippetMaxCli == 5   \* worksheet_filler.py: min(len(q_words), 5)
MinMatchApp == 3     \* app.py: max(3, snippet_len - 1)
MinMatchCli == 2     \* worksheet_filler.py: best_score < 2
OffsetApp == 14      \* app.py: y = base_y - 14
OffsetCli == 15      \* worksheet_filler.py: y = base_y - 15
WrapWidth == 80      \* wrap_width = 80
FallbackWrapWidth == 90
FallbackMarginX == 50
FallbackStart == 150
FallbackStep == 60
LineHeight == 12
BottomMargin == 40

----------------------------------------------------------------------------
(* Generic helpers *)

Min2(a, b) == IF a < b THEN a ELSE b
Max2(a, b) == IF a > b THEN a ELSE b

RECURSIVE SeqMin(_)
SeqMin(s) == IF Len(s) = 1 THEN s[1] ELSE Min2(s[1], SeqMin(Tail(s)))

RECURSIVE SeqMax(_)
SeqMax(s) == IF Len(s) = 1 THEN s[1] ELSE Max2(s[1], SeqMax(Tail(s)))

SeqsUpTo(S, n) == UNION {[1..m -> S] : m \in 0..n}

----------------------------------------------------------------------------
(* Token normalisation: w.strip(".,?!:;").lower() *)

Punct == {".", ",", "?", "!", ":", ";"}

RECURSIVE LStrip(_)
LStrip(w) == IF w # <<>> /\ w[1] \in Punct THEN LStrip(Tail(w)) ELSE w

RECURSIVE RStrip(_)
RStrip(w) ==
    IF w # <<>> /\ w[Len(w)] \in Punct
    THEN RStrip(SubSeq(w, 1, Len(w) - 1))
    ELSE w

Strip(w) == RStrip(LStrip(w))

LowerChar(c) ==
    CASE c = "A" -> "a"
      [] c = "B" -> "b"
      [] OTHER -> c

Lower(w) == [n \in 1..Len(w) |-> LowerChar(w[n])]

Clean(w) == Lower(Strip(w))

----------------------------------------------------------------------------
(* The resolver: find_prompt_anchor (app.py), find_question_anchor        *)
(* (worksheet_filler.py).  A page is [height, words]; a word is            *)
(* [text, x0, bottom] in top-left-origin coordinates.  best_index None is  *)
(* modelled as -1.  An anchor is [found, x, y]; None is NoAnchor.          *)

NoAnchor == [found |-> FALSE, x |-> 0, y |-> 0]

snippet_len_app(p_words) == Min2(Len(p_words), SnippetMaxApp)

snippet_len_cli(q_words) == Min2(Len(q_words), SnippetMaxCli)

\* snippet = [w.strip(".,?!:;").lower() for w in p_words[:snippet_len]]
Snippet(p_words, snippet_len) == [n \in 1..snippet_len |-> Clean(p_words[n])]

\* page_words = [w["text"] for w in words]
PageWords(words) == [n \in 1..Len(words) |-> words[n].text]

\* score = sum(1 for a, b in zip(snippet, window_clean) if a == b), for the
\* window page_words[idx : idx + snippet_len] (idx 0-based)
WindowScore(snippet, page_words, idx) ==
    Cardinality({n \in 1..Len(snippet) : snippet[n] = Clean(page_words[idx + n])})

BetterOrEqual(score, best_score) == score >= best_score

\* if score > best_score
Better(score, best_score) == score > best_score

\* for i in range(0, len(page_words) - snippet_len + 1): ... keep the best
RECURSIVE ScanWindows(_, _, _, _)
ScanWindows(snippet, page_words, idx, best) ==
    IF idx > Len(page_words) - Len(snippet)
    THEN best
    ELSE LET score == WindowScore(snippet, page_words, idx)
         IN  ScanWindows(snippet, page_words, idx + 1,
                         IF Better(score, best.score)
                         THEN [index |-> idx, score |-> score]
                         ELSE best)

\* best_index = None; best_score = 0; the loop
BestWindow(snippet, page_words) ==
    ScanWindows(snippet, page_words, 0, [index |-> -1, score |-> 0])

AlmostAll(snippet_len) == snippet_len - 1

\* min_required = max(3, snippet_len - 1)
min_required_app(snippet_len) == Max2(MinMatchApp, snippet_len - 1)

\* if best_index is None or best_score < 2
min_required_cli(snippet_len) == MinMatchCli

AnchorPointFirstWord(words, page_height, best_index, snippet_len) ==
    [found |-> TRUE, x |-> words[best_index + 1].x0,
     y |-> page_height - words[best_index + 1].bottom]

\* snippet_words = words[best_index:best_index + snippet_len];
\* x0 = min(x0 of them); bottom_from_top = max(bottom of them)
AnchorPointApp(words, page_height, best_index, snippet_len) ==
    LET snippet_words == SubSeq(words, best_index + 1, best_index + snippet_len)
        x0s == [n \in 1..snippet_len |-> snippet_words[n].x0]
        bottoms == [n \in 1..snippet_len |-> snippet_words[n].bottom]
    IN  [found |-> TRUE, x |-> SeqMin(x0s), y |-> page_height - SeqMax(bottoms)]

\* anchor_word = words[best_index + snippet_len - 1]: the last word of the window
AnchorPointCli(words, page_height, best_index, snippet_len) ==
    LET anchor_word == words[best_index + snippet_len]
    IN  [found |-> TRUE, x |-> anchor_word.x0,
         y |-> page_height - anchor_word.bottom]

find_prompt_anchor(pl_page, prompt_text) ==
    LET words == pl_page.words
        snippet_len == snippet_len_app(prompt_text)
        snippet == Snippet(prompt_text, snippet_len)
        best == BestWindow(snippet, PageWords(words))
    IN  IF words = <<>> THEN NoAnchor
        ELSE IF prompt_text = <<>> THEN NoAnchor
        ELSE IF best.index = -1 \/ best.score < min_required_app(snippet_len)
        THEN NoAnchor
        ELSE AnchorPointApp(words, pl_page.height, best.index, snippet_len)

find_question_anchor(pl_page, question) ==
    LET words == pl_page.words
        snippet_len == snippet_len_cli(question)
        snippet == Snippet(question, snippet_len)
        best == BestWindow(snippet, PageWords(words))
    IN  IF words = <<>> THEN NoAnchor
        ELSE IF question = <<>> THEN NoAnchor
        ELSE IF best.index = -1 \/ best.score < min_required_cli(snippet_len)
        THEN NoAnchor
        ELSE AnchorPointCli(words, pl_page.height, best.index, snippet_len)

----------------------------------------------------------------------------
(* Inputs of the resolver harness *)

\* Raw page-word texts: "a", "B:" (cleans to "b"), ":" (cleans to "")
WordTexts == {<<"a">>, <<"B", ":">>, <<":">>}

\* Raw prompt tokens: "A" (cleans to "a"), "b?" (cleans to "b"), "?" (to "")
PromptTokens == {<<"A">>, <<"b", "?">>, <<"?">>}

PageHeights == {792}

\* Word geometry by reading-order position n (1-based): three words per
\* text line, lines going down the page, the middle word of each line set a
\* little lower (a larger bottom).  So the leftmost word of a window may be
\* its first, a middle or its last word, and so may its lowest word.
WordX0(n) == 50 + 40 * ((n - 1) % 3)

WordBottom(n) ==
    100 + 20 * ((n - 1) \div 3) + (IF (n - 1) % 3 = 1 THEN 5 ELSE 0)

\* drop moves the words down the page (added to every bottom)
MakeWords(texts, drop) ==
    [n \in 1..Len(texts) |->
        [text |-> texts[n], x0 |-> WordX0(n), bottom |-> WordBottom(n) + drop]]

\* Prompts: every token sequence of up to FreePrefix tokens, and those
\* extended up to one token past the longer snippet limit by a fixed tail.
FreePrefix == 1
MaxPrompt == SnippetMaxApp + 1
TailToken(n) == IF n % 2 = 0 THEN <<"A">> ELSE <<"b", "?">>

Prompts ==
    {[n \in 1..len |-> IF n <= Len(pre) THEN pre[n] ELSE TailToken(n)] :
        pre \in [1..FreePrefix -> PromptTokens], len \in FreePrefix..MaxPrompt}
    \cup SeqsUpTo(PromptTokens, FreePrefix)

ResolverPages ==
    {[height |-> h, words |-> MakeWords(t, 0)] :
        h \in PageHeights, t \in SeqsUpTo(WordTexts, MaxWords)}

----------------------------------------------------------------------------
(* Item fields and answer wrapping.  A field of an item (a dict) is        *)
(* [kind, val]: kind "str" with the string in val, kind "none" (the key    *)
(* maps to None) or kind "missing" (no such key).  The prompt key is       *)
(* "prompt" in app.py and "question" in worksheet_filler.py.               *)

EmptyPrompt == <<>>        \* "".split()
EmptyAnswer == << <<>> >>  \* "": one chunk, no words

\* item.get(key, "") or ""
GetOrEmpty(field, empty) == IF field.kind = "str" THEN field.val ELSE empty

\* not prompt_text / not answer_text / not answer
Falsy(field, empty) == IF field.kind # "str" THEN TRUE ELSE field.val = empty

RECURSIVE Concat(_)
Concat(chunks) ==
    IF chunks = <<>> THEN <<>> ELSE Head(chunks) \o Concat(Tail(chunks))

RECURSIVE LineLen(_)
LineLen(line) ==
    IF line = <<>> THEN 0
    ELSE IF Len(line) = 1 THEN line[1]
    ELSE line[1] + 1 + LineLen(Tail(line))

\* textwrap.wrap on words no longer than the width: greedy filling
RECURSIVE WrapFill(_, _, _, _)
WrapFill(words, width, cur, acc) ==
    IF words = <<>>
    THEN IF cur = <<>> THEN acc ELSE Append(acc, cur)
    ELSE IF cur = <<>> \/ LineLen(cur) + 1 + Head(words) <= width
    THEN WrapFill(Tail(words), width, Append(cur, Head(words)), acc)
    ELSE WrapFill(Tail(words), width, <<Head(words)>>, Append(acc, cur))

Wrap(words, width) == WrapFill(words, width, <<>>, <<>>)

\* app.py: for chunk in answer_text.split("\n"):
\*             lines.extend(textwrap.wrap(chunk, width=wrap_width) or [""])
RECURSIVE WrapChunks(_, _)
WrapChunks(chunks, width) ==
    IF chunks = <<>> THEN <<>>
    ELSE (IF Wrap(Head(chunks), width) = <<>> THEN << <<>> >>
          ELSE Wrap(Head(chunks), width)) \o WrapChunks(Tail(chunks), width)

\* worksheet_filler.py: textwrap.wrap(a_text, width=wrap_width); a line break
\* is whitespace like any other
WrapWhole(chunks, width) == Wrap(Concat(chunks), width)

----------------------------------------------------------------------------
(* overlay_answers_on_pdf, both variants.                                  *)
(* pc: "page"    top of `for i in range(num_pages)`                        *)
(*     "item"    top of the loop over the items of page i                  *)
(*     "line"    the loop over the wrapped lines of item j                 *)
(*     "compose" can.save() done, the overlay is about to be read/merged   *)
(*     "done"    the output file is written                                *)
(*     "raised"  an exception left overlay_answers_on_pdf                  *)
(* writer holds one record per added page: [src, how, overlay], src the    *)
(* index of the input page, how "pass" (copied before any canvas exists),  *)
(* "copied" (overlay had no page), "merged" (merge_page succeeded) or      *)
(* "failed" (the except branch), overlay the lines merged onto it.         *)

NoTrace ==
    [resolved |-> {}, built |-> {}, placed |-> <<>>, truncated |-> {},
     error |-> "none"]

Page == pages[i + 1]
Items == items_by_page[i + 1]
Item == Items[j]

NoAnswersRangeOnly(idx, by_page) == idx >= Len(by_page)

\* if i >= len(items_by_page) or not items_by_page[i]
NoAnswers(idx, by_page) ==
    IF idx >= Len(by_page) THEN TRUE ELSE by_page[idx + 1] = <<>>

KeepFallback(cur) == cur

\* fallback_y = 150, inside the page loop (worksheet_filler.py only)
StartFallback(cur) == IF variant = "cli" THEN FallbackStart ELSE cur

BelowZero(cursor) == cursor < 0

\* if y < 40
BelowMargin(cursor) == cursor < BottomMargin

\* writer.add_page(page); continue
PassThrough ==
    /\ pc = "page" /\ i < Len(pages)
    /\ NoAnswers(i, items_by_page)
    /\ writer' = Append(writer, [src |-> i, how |-> "pass", overlay |-> <<>>])
    /\ i' = i + 1
    /\ UNCHANGED <<variant, pages, items_by_page, pc, j, fallback_y, x, y,
                   lines, can, output, trace, rvars>>

\* packet = io.BytesIO(); can = canvas.Canvas(...); can.setFont(...)
BeginPage ==
    /\ pc = "page" /\ i < Len(pages)
    /\ ~NoAnswers(i, items_by_page)
    /\ can' = <<>>
    /\ fallback_y' = StartFallback(fallback_y)
    /\ j' = 1
    /\ pc' = "item"
    /\ trace' = [trace EXCEPT !.built = @ \cup {i}]
    /\ UNCHANGED <<variant, pages, items_by_page, i, x, y, lines, writer,
                   output, rvars>>

NextItem ==
    /\ j' = j + 1 /\ pc' = "item" /\ lines' = <<>>

\* app.py: if not prompt_text or not answer_text: continue
\* worksheet_filler.py: if not answer: continue
SkipItem ==
    /\ pc = "item" /\ j <= Len(Items)
    /\ IF variant = "app"
       THEN (IF Falsy(Item.prompt, EmptyPrompt) THEN TRUE
             ELSE Falsy(Item.answer, EmptyAnswer))
       ELSE Falsy(Item.answer, EmptyAnswer)
    /\ NextItem
    /\ UNCHANGED <<variant, pages, items_by_page, i, fallback_y, x, y, can,
                   writer, output, trace, rvars>>

\* worksheet_filler.py: question is None (the "question" key maps to None)
\* and the page has words: question.split() raises AttributeError
RaiseItem ==
    /\ pc = "item" /\ j <= Len(Items)
    /\ variant = "cli"
    /\ ~Falsy(Item.answer, EmptyAnswer)
    /\ Item.prompt.kind = "none" /\ Page.words # <<>>
    /\ pc' = "raised"
    /\ trace' = [trace EXCEPT !.resolved = @ \cup {i}, !.error = "item"]
    /\ UNCHANGED <<variant, pages, items_by_page, i, j, fallback_y, x, y,
                   lines, can, writer, output, rvars>>

\* the anchor of the current item, as the variant's resolver returns it
ItemAnchor ==
    IF variant = "app"
    THEN find_prompt_anchor(Page, GetOrEmpty(Item.prompt, EmptyPrompt))
    ELSE find_question_anchor(Page, GetOrEmpty(Item.prompt, EmptyPrompt))

Resolvable ==
    /\ pc = "item" /\ j <= Len(Items)
    /\ ~Falsy(Item.answer, EmptyAnswer)
    /\ IF variant = "app" THEN ~Falsy(Item.prompt, EmptyPrompt)
       ELSE ~(Item.prompt.kind = "none" /\ Page.words # <<>>)

\* app.py: if anchor is None: continue
SkipUnresolved ==
    /\ Resolvable /\ variant = "app"
    /\ ~ItemAnchor.found
    /\ NextItem
    /\ trace' = [trace EXCEPT !.resolved = @ \cup {i}]
    /\ UNCHANGED <<variant, pages, items_by_page, i, fallback_y, x, y, can,
                   writer, output, rvars>>

\* x = base_x; y = base_y - 14 (app.py) / 15 (worksheet_filler.py);
\* wrap_width = 80; the answer is wrapped
PlaceAnchored ==
    /\ Resolvable
    /\ ItemAnchor.found
    /\ x' = ItemAnchor.x
    /\ y' = ItemAnchor.y - (IF variant = "app" THEN OffsetApp ELSE OffsetCli)
    /\ lines' = IF variant = "app"
                THEN WrapChunks(Item.answer.val, WrapWidth)
                ELSE WrapWhole(Item.answer.val, WrapWidth)
    /\ pc' = "line"
    /\ trace' = [trace EXCEPT
                    !.resolved = @ \cup {i},
                    !.placed = Append(@, [page |-> i, item |-> j,
                                          mode |-> "anchor", x |-> x', y |-> y'])]
    /\ UNCHANGED <<variant, pages, items_by_page, i, j, fallback_y, can,
                   writer, output, rvars>>

\* worksheet_filler.py: x = fallback_margin_x; y = fallback_y;
\* wrap_width = fallback_wrap_width; fallback_y -= 60
PlaceFallback ==
    /\ Resolvable /\ variant = "cli"
    /\ ~ItemAnchor.found
    /\ x' = FallbackMarginX
    /\ y' = fallback_y
    /\ fallback_y' = fallback_y - FallbackStep
    /\ lines' = WrapWhole(Item.answer.val, FallbackWrapWidth)
    /\ pc' = "line"
    /\ trace' = [trace EXCEPT
                    !.resolved = @ \cup {i},
                    !.placed = Append(@, [page |-> i, item |-> j,
                                          mode |-> "fallback", x |-> x', y |-> y'])]
    /\ UNCHANGED <<variant, pages, items_by_page, i, j, can, writer, output,
                   rvars>>

\* y -= 12; (y >= 40) can.drawString(x, y, line)
DrawLine ==
    /\ pc = "line" /\ lines # <<>>
    /\ ~BelowMargin(y - LineHeight)
    /\ y' = y - LineHeight
    /\ can' = Append(can, [x |-> x, y |-> y', text |-> Head(lines), item |-> j])
    /\ lines' = Tail(lines)
    /\ UNCHANGED <<variant, pages, items_by_page, pc, i, j, fallback_y, x,
                   writer, output, trace, rvars>>

\* y -= 12; if y < 40: break
Truncate ==
    /\ pc = "line" /\ lines # <<>>
    /\ BelowMargin(y - LineHeight)
    /\ y' = y - LineHeight
    /\ NextItem
    /\ trace' = [trace EXCEPT !.truncated = @ \cup {<<i, j>>}]
    /\ UNCHANGED <<variant, pages, items_by_page, i, fallback_y, x, can,
                   writer, output, rvars>>

\* the line loop is exhausted
EndLines ==
    /\ pc = "line" /\ lines = <<>>
    /\ NextItem
    /\ UNCHANGED <<variant, pages, items_by_page, i, fallback_y, x, y, can,
                   writer, output, trace, rvars>>

\* the item loop is exhausted: can.save(); packet.seek(0)
Save ==
    /\ pc = "item" /\ j > Len(Items)
    /\ pc' = "compose"
    /\ UNCHANGED <<variant, pages, items_by_page, i, j, fallback_y, x, y,
                   lines, can, writer, output, trace, rvars>>

AddPage(how, overlay) ==
    /\ writer' = Append(writer, [src |-> i, how |-> how, overlay |-> overlay])
    /\ i' = i + 1
    /\ pc' = "page"
    /\ UNCHANGED <<variant, pages, items_by_page, j, fallback_y, x, y, lines,
                   can, output, trace, rvars>>

\* The overlay document PdfReader(packet) yields: one page when something was
\* drawn; when nothing was drawn, one page or none (the PDF library decides).
OverlayPageCounts == IF can # <<>> THEN {1} ELSE {0, 1}

\* app.py: if len(overlay_pdf.pages) == 0: writer.add_page(page); continue
CopyUnmerged ==
    /\ pc = "compose" /\ variant = "app"
    /\ 0 \in OverlayPageCounts
    /\ AddPage("copied", <<>>)

\* page.merge_page(overlay_page); writer.add_page(page)
MergeOverlay ==
    /\ pc = "compose"
    /\ 1 \in OverlayPageCounts
    /\ AddPage("merged", can)

\* app.py: PdfReader(packet) or merge_page raises inside try: the except
\* branch logs, then writer.add_page(page)
MergeFailsCaught ==
    /\ pc = "compose" /\ variant = "app"
    /\ AddPage("failed", <<>>)

\* worksheet_filler.py: PdfReader(packet), overlay_pdf.pages[0] (no page) or
\* merge_page raises; nothing catches it
MergeFailsRaised ==
    /\ pc = "compose" /\ variant = "cli"
    /\ pc' = "raised"
    /\ trace' = [trace EXCEPT !.error = "overlay"]
    /\ UNCHANGED <<variant, pages, items_by_page, i, j, fallback_y, x, y,
                   lines, can, writer, output, rvars>>

\* with open(output_pdf, "wb") as f: writer.write(f)
WriteOutput ==
    /\ pc = "page" /\ i = Len(pages)
    /\ output' = <<writer>>
    /\ pc' = "done"
    /\ UNCHANGED <<variant, pages, items_by_page, i, j, fallback_y, x, y,
                   lines, can, writer, trace, rvars>>

Next ==
    \/ PassThrough \/ BeginPage
    \/ SkipItem \/ RaiseItem \/ SkipUnresolved \/ PlaceAnchored \/ PlaceFallback
    \/ DrawLine \/ Truncate \/ EndLines \/ Save
    \/ CopyUnmerged \/ MergeOverlay \/ MergeFailsCaught \/ MergeFailsRaised
    \/ WriteOutput

----------------------------------------------------------------------------
(* Inputs of overlay_answers_on_pdf *)

Str(v) == [kind |-> "str", val |-> v]
NoneField == [kind |-> "none", val |-> <<>>]
MissingField == [kind |-> "missing", val |-> <<>>]

PageTexts == << <<"a">>, <<"B", ":">>, <<"a">> >>

\* Pages 792 high: without words; with "a B: a" near the top; with it low
\* enough that only a few lines fit below; with it inside the bottom margin.
PageBlank == [height |-> 792, words |-> <<>>]
PageTop == [height |-> 792, words |-> MakeWords(PageTexts, 0)]
PageMid == [height |-> 792, words |-> MakeWords(PageTexts, 600)]
PageLow == [height |-> 792, words |-> MakeWords(PageTexts, 650)]

PromptHit == << <<"A">>, <<"b", "?">>, <<"A">> >>          \* "A b? A"
PromptMiss == << <<"b", "?">>, <<"b", "?">>, <<"b", "?">> >>  \* "b? b? b?"

AnswerShort == << <<4>> >>                              \* "1798"
AnswerLong == << [n \in 1..MaxAnswerWords |-> 50] >>    \* long words, one line each
AnswerMulti == << <<30, 30>>, <<>>, <<30>> >>           \* "w w\n\nw"

HitShort == [prompt |-> Str(PromptHit), answer |-> Str(AnswerShort)]
HitLong == [prompt |-> Str(PromptHit), answer |-> Str(AnswerLong)]
HitMulti == [prompt |-> Str(PromptHit), answer |-> Str(AnswerMulti)]
MissShort == [prompt |-> Str(PromptMiss), answer |-> Str(AnswerShort)]
MissLong == [prompt |-> Str(PromptMiss), answer |-> Str(AnswerLong)]
HitNoAnswer == [prompt |-> Str(PromptHit), answer |-> Str(EmptyAnswer)]
NoneShort == [prompt |-> NoneField, answer |-> Str(AnswerShort)]

NoPromptShort == [prompt |-> MissingField, answer |-> Str(AnswerShort)]
EmptyPromptShort == [prompt |-> Str(EmptyPrompt), answer |-> Str(AnswerShort)]
HitNoAnswerKey == [prompt |-> Str(PromptHit), answer |-> MissingField]

ItemChoices ==
    {HitShort, HitLong, HitMulti, MissShort, MissLong, HitNoAnswer, NoneShort}

\* Items lacking a usable prompt or answer (key absent, None or ""), and two
\* complete items to stand beside them: one that resolves, one that does not.
MalformedChoices ==
    {NoPromptShort, EmptyPromptShort, NoneShort, HitNoAnswerKey, HitNoAnswer}
CompleteChoices == {HitShort, MissLong}

\* Documents of several pages, each page with one of a few answer lists;
\* the answers list may be shorter than the document.
DocPages == {PageBlank, PageTop, PageLow}
DocLists ==
    {<<>>, <<HitShort>>, <<MissLong, MissShort>>, <<MissShort, HitLong>>,
     <<NoneShort>>}

OverlayStart ==
    /\ pc = "page" /\ i = 0 /\ j = 0 /\ fallback_y = 0 /\ x = 0 /\ y = 0
    /\ lines = <<>> /\ can = <<>> /\ writer = <<>> /\ output = <<>>
    /\ trace = NoTrace

ResolverIdle ==
    /\ r_pc = "idle" /\ r_page = PageBlank /\ r_prompt = <<>>
    /\ r_anchor = NoAnchor

Init ==
    /\ variant \in {"app", "cli"}
    /\ pages \in SeqsUpTo(DocPages, MaxPages)
    /\ items_by_page \in SeqsUpTo(DocLists, Len(pages))
    /\ OverlayStart
    /\ ResolverIdle

Spec == Init /\ [][Next]_vars

\* One page of any kind with every answer list of up to MaxItems items.
InitPage ==
    /\ variant \in {"app", "cli"}
    /\ pages \in {<<p>> : p \in {PageBlank, PageTop, PageMid, PageLow}}
    /\ items_by_page \in {<<l>> : l \in SeqsUpTo(ItemChoices, MaxItems)}
    /\ OverlayStart
    /\ ResolverIdle

SpecPage == InitPage /\ [][Next]_vars

\* One page with every answer list of up to MaxItems items, each item either
\* complete or lacking a field.
InitItems ==
    /\ variant \in {"app", "cli"}
    /\ pages \in {<<p>> : p \in {PageBlank, PageTop, PageLow}}
    /\ items_by_page \in
          {<<l>> : l \in SeqsUpTo(MalformedChoices \cup CompleteChoices, MaxItems)}
    /\ OverlayStart
    /\ ResolverIdle

SpecItems == InitItems /\ [][Next]_vars

----------------------------------------------------------------------------
(* Resolver harness: one call of either resolver on drawn inputs.  The     *)
(* variables of overlay_answers_on_pdf stay idle.                          *)

OverlayIdle ==
    /\ variant = "app" /\ pages = <<>> /\ items_by_page = <<>>
    /\ pc = "idle" /\ i = 0 /\ j = 0 /\ fallback_y = 0 /\ x = 0 /\ y = 0
    /\ lines = <<>> /\ can = <<>> /\ writer = <<>> /\ output = <<>>
    /\ trace = NoTrace

InitResolve ==
    /\ r_pc = "start"
    /\ r_page \in ResolverPages
    /\ r_prompt \in Prompts
    /\ r_anchor = NoAnchor
    /\ OverlayIdle

ResolvePrompt ==
    /\ r_pc = "start"
    /\ r_anchor' = find_prompt_anchor(r_page, r_prompt)
    /\ r_pc' = "app"
    /\ UNCHANGED <<r_page, r_prompt, ovars>>

ResolveQuestion ==
    /\ r_pc = "start"
    /\ r_anchor' = find_question_anchor(r_page, r_prompt)
    /\ r_pc' = "cli"
    /\ UNCHANGED <<r_page, r_prompt, ovars>>

NextResolve == ResolvePrompt \/ ResolveQuestion

SpecResolve == InitResolve /\ [][NextResolve]_vars

----------------------------------------------------------------------------
(* Properties of the resolver, stated independently of its scan loop.      *)

\* Snippet length and cleaned snippet of the call the harness has made
RK == IF r_pc = "cli" THEN Min2(Len(r_prompt), SnippetMaxCli)
      ELSE Min2(Len(r_prompt), SnippetMaxApp)
RSnippet == [n \in 1..RK |-> Clean(r_prompt[n])]
RWords == r_page.words
RWindows == 0..(Len(RWords) - RK)
RScore(idx) ==
    Cardinality({n \in 1..RK : Clean(RWords[idx + n].text) = RSnippet[n]})
RResolved == r_pc \in {"app", "cli"}
RMinX0(idx) ==
    CHOOSE v \in {RWords[idx + n].x0 : n \in 1..RK} :
        \A n \in 1..RK : v <= RWords[idx + n].x0
RMaxBottom(idx) ==
    CHOOSE v \in {RWords[idx + n].bottom : n \in 1..RK} :
        \A n \in 1..RK : v >= RWords[idx + n].bottom
RAtMinMax(idx) ==
    /\ r_anchor.x = RMinX0(idx)
    /\ r_anchor.y = r_page.height - RMaxBottom(idx)
RAtLastWord(idx) ==
    /\ r_anchor.x = RWords[idx + RK].x0
    /\ r_anchor.y = r_page.height - RWords[idx + RK].bottom
RFullMatch == RK >= 1 /\ \E idx \in RWindows : RScore(idx) = RK
RThreshold == IF RK - 1 > 3 THEN RK - 1 ELSE 3

REarliestBest ==
    CHOOSE idx \in RWindows :
        /\ \A o \in RWindows : RScore(o) <= RScore(idx)
        /\ \A o \in RWindows : RScore(o) = RScore(idx) => idx <= o

\* C6: a returned anchor is the anchor of the lowest-index window among those
\* reaching the maximum score, never of a later tying window.
C6_EarliestWindowWins ==
    (RResolved /\ r_anchor.found) =>
        IF r_pc = "app" THEN RAtMinMax(REarliestBest)
        ELSE RAtLastWord(REarliestBest)

\* C6 witness: an anchor was returned where two windows tie for the maximum
\* score and the later one would give another anchor point.
C6_Witness ==
    /\ RResolved /\ r_anchor.found
    /\ \E a, b \in RWindows :
          /\ a < b /\ RScore(a) = RScore(b)
          /\ \A o \in RWindows : RScore(o) <= RScore(a)
          /\ RMinX0(a) # RMinX0(b)
          /\ RWords[a + RK].x0 # RWords[b + RK].x0

----------------------------------------------------------------------------
(* Properties of overlay_answers_on_pdf.                                   *)

Ended == pc \in {"done", "raised"}
InPage == pc \in {"item", "line", "compose"}
HasAnswers(src) ==
    src < Len(items_by_page) /\ Len(items_by_page[src + 1]) > 0

\* C1 as stated, on answer lists whose items are well formed: when
\* overlay_answers_on_pdf has ended, the output holds exactly one page per
\* input page, in input order, whichever branch each page took.
C1_AsStated ==
    (Ended /\ trace.error # "item") =>
        /\ Len(output) = 1
        /\ Len(output[1]) = Len(pages)
        /\ \A n \in 1..Len(pages) : output[1][n].src = n - 1

\* C2 as stated: a failure of the overlay reader or of merge_page on page i
\* never reaches the caller; page i is added with its original content and
\* the loop goes on with page i+1.
C2_AsStated ==
    /\ trace.error # "overlay"
    /\ \A n \in 1..Len(writer) :
          writer[n].how = "failed" => writer[n].overlay = <<>>

\* C3: a page whose index is out of range of the answers list, or whose
\* answer list is empty, is passed through: it is added unmodified, no anchor
\* is resolved on it, no canvas is built for it, nothing is merged onto it;
\* and the item, line and compose steps only ever run on a page with answers.
C3_NoAnswersPassThrough ==
    /\ \A n \in 1..Len(writer) :
          ~HasAnswers(writer[n].src) =>
              /\ writer[n].how = "pass" /\ writer[n].overlay = <<>>
              /\ writer[n].src \notin trace.resolved
              /\ writer[n].src \notin trace.built
    /\ InPage => HasAnswers(i)

\* C3 witness: a two-page document; page 0 has an empty answer list, page 1
\* is beyond the end of the answers list; both were passed through.
C3_Witness ==
    /\ pc = "done" /\ Len(pages) = 2 /\ Len(items_by_page) = 1
    /\ items_by_page[1] = <<>>
    /\ writer[1].how = "pass" /\ writer[2].how = "pass"

\* The lines on the canvas that belong to item k of the current page
DrawnOf(k) == {n \in DOMAIN can : can[n].item = k}
PlacedHere == {n \in DOMAIN trace.placed : trace.placed[n].page = i}

\* C7: no line is ever drawn below the bottom margin (40), on the canvas or
\* in any page added to the output; the lines of an item sit at its start
\* cursor lowered by the line height (12) once per line; and an item whose
\* next line would fall below the margin is cut there, without an error.
C7_NoLineBelowMargin ==
    /\ \A n \in DOMAIN can : can[n].y >= 40
    /\ \A w \in DOMAIN writer :
          \A n \in DOMAIN writer[w].overlay : writer[w].overlay[n].y >= 40
    /\ InPage =>
          \A p \in PlacedHere :
              LET pl == trace.placed[p]
                  count == Cardinality(DrawnOf(pl.item))
              IN  /\ {can[n].y : n \in DrawnOf(pl.item)}
                        = {pl.y - 12 * m : m \in 1..count}
                  /\ <<i, pl.item>> \in trace.truncated =>
                        pl.y - 12 * (count + 1) < 40

\* C7 witness: worksheet_filler.py on a page with three unresolved answers:
\* the second is cut after some lines, the third starts from a fallback
\* cursor that is already below the margin and draws nothing.
C7_Witness ==
    /\ variant = "cli" /\ pc = "compose"
    /\ \E p, q \in PlacedHere :
          /\ trace.placed[p].mode = "fallback" /\ trace.placed[p].y < 40
          /\ <<i, trace.placed[p].item>> \in trace.truncated
          /\ DrawnOf(trace.placed[p].item) = {}
          /\ <<i, trace.placed[q].item>> \in trace.truncated
          /\ DrawnOf(trace.placed[q].item) # {}

FallbackHere ==
    SelectSeq(trace.placed, LAMBDA pl : pl.page = i /\ pl.mode = "fallback")
FallbackItems == {FallbackHere[n].item : n \in DOMAIN FallbackHere}

\* C8 as stated, on worksheet_filler.py (the variant with a fallback path;
\* app.py skips an unresolved item): the j-th unresolved answer of a page
\* starts at x = 50 from the cursor 150 - 60*(j-1), and the lines of two
\* different unresolved answers never share a position.
C8_AsStated ==
    (variant = "cli" /\ InPage) =>
        /\ \A n \in DOMAIN FallbackHere :
              /\ FallbackHere[n].x = 50
              /\ FallbackHere[n].y = 150 - 60 * (n - 1)
        /\ \A a, b \in DOMAIN can :
              (/\ can[a].item \in FallbackItems
               /\ can[b].item \in FallbackItems
               /\ can[a].item # can[b].item)
              => <<can[a].x, can[a].y>> # <<can[b].x, can[b].y>>

\* One page laid out on its own, from a fresh fallback cursor: the lines
\* item k and the items after it put on the canvas.
RECURSIVE IsolatedItemLines(_, _, _, _, _)
IsolatedItemLines(k, atx, from, texts, acc) ==
    IF texts = <<>> \/ from - 12 < 40 THEN acc
    ELSE IsolatedItemLines(k, atx, from - 12, Tail(texts),
                           Append(acc, [x |-> atx, y |-> from - 12,
                                        text |-> Head(texts), item |-> k]))

RECURSIVE IsolatedOverlay(_, _, _, _, _)
IsolatedOverlay(v, page, items, k, cursor) ==
    IF k > Len(items) THEN <<>>
    ELSE LET it == items[k]
             prompt == IF it.prompt.kind = "str" THEN it.prompt.val ELSE <<>>
             noAnswer == it.answer.kind # "str" \/ it.answer.val = << <<>> >>
             noPrompt == prompt = <<>>
             anchor == IF v = "app" THEN find_prompt_anchor(page, prompt)
                       ELSE find_question_anchor(page, prompt)
         IN  IF noAnswer \/ (v = "app" /\ (noPrompt \/ ~anchor.found))
             THEN IsolatedOverlay(v, page, items, k + 1, cursor)
             ELSE IF anchor.found
             THEN IsolatedItemLines(k, anchor.x,
                      anchor.y - (IF v = "app" THEN 14 ELSE 15),
                      IF v = "app" THEN WrapChunks(it.answer.val, 80)
                      ELSE WrapWhole(it.answer.val, 80), <<>>)
                  \o IsolatedOverlay(v, page, items, k + 1, cursor)
             ELSE IsolatedItemLines(k, 50, cursor,
                      WrapWhole(it.answer.val, 90), <<>>)
                  \o IsolatedOverlay(v, page, items, k + 1, cursor - 60)

PageAlone(src) ==
    IsolatedOverlay(variant, pages[src + 1], items_by_page[src + 1], 1, 150)

\* C9: what is drawn on page i depends on page i's own words, geometry and
\* answer list only: worksheet_filler.py's fallback cursor is 150 again when
\* the items of a page begin, the canvas handed to the compositor equals the
\* page laid out on its own, and so does the overlay of every merged page,
\* wherever the page sits in the document.
C9_PagesIndependent ==
    /\ (variant = "cli" /\ pc = "item" /\ j = 1) => fallback_y = 150
    /\ pc = "compose" => can = PageAlone(i)
    /\ \A n \in 1..Len(writer) :
          IF writer[n].how = "merged"
          THEN writer[n].overlay = PageAlone(writer[n].src)
          ELSE writer[n].overlay = <<>>

\* C9 witness: worksheet_filler.py merged two pages that both placed answers
\* on the fallback path.
C9_Witness ==
    /\ variant = "cli" /\ pc = "done" /\ Len(writer) = 2
    /\ writer[1].how = "merged" /\ writer[2].how = "merged"
    /\ \E p, q \in DOMAIN trace.placed :
          /\ trace.placed[p].page = 0 /\ trace.placed[p].mode = "fallback"
          /\ trace.placed[q].page = 1 /\ trace.placed[q].mode = "fallback"
          /\ trace.placed[q].y = 150
    /\ writer[2].overlay # <<>>

\* C10 as stated: a page that has answers but on which no line was drawn is
\* not merged with anything; it is passed through unchanged.
C10_AsStated ==
    \A n \in 1..Len(writer) :
        (HasAnswers(writer[n].src) /\ writer[n].overlay = <<>>)
            => writer[n].how # "merged"

\* An item is malformed when its prompt or its answer is missing (no key,
\* or None) or empty.
MalformedItem(it) ==
    \/ it.prompt.kind # "str" \/ it.prompt.val = <<>>
    \/ it.answer.kind # "str" \/ it.answer.val = << <<>> >>

WellFormedOnly(items) == SelectSeq(items, LAMBDA it : ~MalformedItem(it))

AllMalformed(src) ==
    /\ HasAnswers(src)
    /\ \A k \in DOMAIN items_by_page[src + 1] :
          MalformedItem(items_by_page[src + 1][k])

\* The draw instructions of a canvas without the index of their item
Bare(c) ==
    [n \in DOMAIN c |-> [x |-> c[n].x, y |-> c[n].y, text |-> c[n].text]]

\* C11 as stated: a malformed item never makes overlay_answers_on_pdf fail;
\* no line on the canvas and no placement (anchored or fallback, which moves
\* the fallback cursor) belongs to a malformed item; the canvas handed to the
\* compositor is the one the page's well-formed items alone would give; and
\* a page whose items are all malformed reaches the output with nothing
\* drawn on it.
C11_AsStated ==
    /\ trace.error # "item"
    /\ InPage =>
          /\ \A n \in DOMAIN can : ~MalformedItem(Items[can[n].item])
          /\ \A p \in PlacedHere : ~MalformedItem(Items[trace.placed[p].item])
    /\ pc = "compose" =>
          Bare(can) = Bare(IsolatedOverlay(variant, Page,
                                           WellFormedOnly(Items), 1, 150))
    /\ \A n \in 1..Len(writer) :
          AllMalformed(writer[n].src) => writer[n].overlay = <<>>

============================================================================
